---- MODULE Spec2Model ----
(***************************************************************************)
(* The Spanner change-stream watch of internal/datastore/spanner/watch.go: *)
(* one producer goroutine (spannerDatastore.watch) that opens a change     *)
(* stream reader, decodes every batch the reader hands to its callback,    *)
(* and delivers revision change sets on a bounded channel, next to one     *)
(* consumer that reads the two channels and may cancel the context.        *)
(***************************************************************************)
EXTENDS Integers, Sequences, FiniteSets, TLC

\* ------------------------------------------------------------------ bounds
\* Largest timestamp the stream hands out.
MaxTs == 11
\* Timestamps left to a watch that starts late in the stream (Spec).
LateTicks == 3
\* Data change records in one change record.
MaxDCR == 2
\* Heartbeat records in one change record.
MaxHB == 2
\* Data change records the stream hands out to a watch that starts late.
MaxData == 2
\* Data change records the stream hands out to a watch that starts at the
\* beginning of the stream (LongSpec).
MaxDataEarly == 1

\* ------------------------------------------------------- program constants
\* make(chan *datastore.RevisionChanges, 10)
UpdatesCapacity == 10
\* make(chan error): an error channel that holds nothing.
ErrsUnbuffered == Len(<<>>)
\* make(chan error, 1)
ErrsCapacity == 1
\* datastore.WatchContent bit flags
WatchRelationships == 1
WatchSchema == 2
WatchCheckpoints == 4

RelationTupleChangeStreamName == "relation_tuple_stream"
SchemaChangeStreamName == "schema_change_stream"
CombinedChangeStreamName == "combined_change_stream"

\* Table and column names of the Spanner schema the watch reads.
tableRelationship == "relation_tuple"
tableNamespace == "namespace_config"
tableCaveat == "caveat"
colNamespace == "namespace"
colObjectID == "object_id"
colRelation == "relation"
colUsersetNamespace == "userset_namespace"
colUsersetObjectID == "userset_object_id"
colUsersetRelation == "userset_relation"
colCaveatName == "caveat_name"
colCaveatContext == "caveat_context"
colNamespaceName == "namespace"
colNamespaceConfig == "serialized_config"
colName == "name"
colCaveatDefinition == "definition"

\* The errors the session can put on the error channel.
ErrParse == "failed to parse database name"
ErrOpen == "reader open error"
ErrRead == "reader read error"
ErrWatchCanceled == "watch canceled"
ErrWatchDisconnected == "watch disconnected"
ErrUnableToReadConfig == "unable to read config"
ErrJSON == "json unmarshal error"
NoErr == "nil"

\* ------------------------------------------------------------ bit masks
Bit(m, b) == (m \div b) % 2

\* a & b over the three content bits
BitAnd(a, b) ==
    Bit(a, 1) * Bit(b, 1) + 2 * Bit(a, 2) * Bit(b, 2) + 4 * Bit(a, 4) * Bit(b, 4)

BitOr(a, b) == a + b - BitAnd(a, b)

\* ------------------------------------------------------- database names
\* A database name is the string split at "/".
validDBPattern(db) ==
    /\ Len(db) = 6
    /\ db[1] = "projects"
    /\ db[3] = "instances"
    /\ db[5] = "databases"
    /\ db[2] # "" /\ db[4] # "" /\ db[6] # ""

\* The error of parseDatabaseName.
parseDatabaseName(db) == IF validDBPattern(db) THEN NoErr ELSE ErrParse

DatabaseNames ==
    { <<"projects", "p", "instances", "i", "databases", "d">>,
      <<"projects", "p", "instances", "i">>,
      <<"projects", "", "instances", "i", "databases", "d">> }

\* ---------------------------------------------------- stream selection
\* The alternative a change of the two tests' order would give.
changeStreamNameSwapped(content) ==
    IF BitAnd(content, WatchRelationships) = content
    THEN RelationTupleChangeStreamName
    ELSE IF BitAnd(content, BitOr(WatchSchema, WatchCheckpoints)) = content
         THEN SchemaChangeStreamName
         ELSE CombinedChangeStreamName

\* The later assignment wins.
changeStreamName(content) ==
    IF BitAnd(content, BitOr(WatchSchema, WatchCheckpoints)) = content
    THEN SchemaChangeStreamName
    ELSE IF BitAnd(content, WatchRelationships) = content
         THEN RelationTupleChangeStreamName
         ELSE CombinedChangeStreamName

\* ----------------------------------------------------- revision codec
revisionFromTimestamp(ts) == ts

\* ------------------------------------------------ loosely typed values
\* A value of type any: a string, something that is no string, or nil.
Str(s) == [t |-> "string", v |-> s]
NonStr == [t |-> "int64", v |-> "7"]
Nil == [t |-> "nil", v |-> ""]

\* The Value of a spanner.NullJSON: a map[string]any, given as the set of its
\* <<column, value>> pairs, or something that is no such map.
MapOf(pairs) == [isMap |-> TRUE, cols |-> pairs]
NotAMap == [isMap |-> FALSE, cols |-> {}]
EmptyMap == MapOf({})

\* m[c], nil when the key is absent
Get(m, c) ==
    IF \E p \in m.cols : p[1] = c
    THEN (CHOOSE p \in m.cols : p[1] = c)[2]
    ELSE Nil

\* the ok of v, ok := m[c]
Has(m, c) == \E p \in m.cols : p[1] = c

\* whether x.(string) succeeds
IsString(x) == x.t = "string"

\* ----------------------------------------------------- payload decoding
\* json.Unmarshal of a caveat context: the key/value pairs, or an error.
JSONTable ==
    { <<"{\"x\":9001}", {<<"x", "9001">>}>>,
      <<"{}", {}>> }

JSONValid(s) == \E e \in JSONTable : e[1] = s
JSONUnmarshal(s) == (CHOOSE e \in JSONTable : e[1] = s)[2]

\* base64.StdEncoding.DecodeString: the bytes, or an error.
Base64Table ==
    { <<"Cghkb2N1bWVudA==", "0a08:document">>,
      <<"CgpleHBpcmF0aW9u", "0a0a:expiration">>,
      <<"Cv8=", "0aff">> }

Base64Valid(s) == \E e \in Base64Table : e[1] = s
Base64Decode(s) == (CHOOSE e \in Base64Table : e[1] = s)[2]

\* UnmarshalVT of a definition: its name, or an error.
ProtoTable ==
    { <<"0a08:document", "document">>,
      <<"0a0a:expiration", "expiration">> }

UnmarshalValid(b) == \E e \in ProtoTable : e[1] = b
UnmarshalVT(b) == (CHOOSE e \in ProtoTable : e[1] = b)[2]

\* ------------------------------------------------------ decode results
NoCaveat == [name |-> "", context |-> {}]
NoTuple == [ns |-> "", oid |-> "", rel |-> "", sns |-> "", soid |-> "", srel |-> ""]
NoEvent == [kind |-> "none", op |-> "", tuple |-> NoTuple, caveat |-> NoCaveat, name |-> ""]

Panic == [res |-> "panic", err |-> "interface conversion", ev |-> NoEvent]
Skip == [res |-> "skip", err |-> NoErr, ev |-> NoEvent]
Fail(e) == [res |-> "error", err |-> e, ev |-> NoEvent]
\* spiceerrors.MustBugf
MustBugf(msg) == Fail(msg)
Emit(e) == [res |-> "event", err |-> NoErr, ev |-> e]

RelEvent(op, tpl, cav) ==
    [kind |-> "relationship", op |-> op, tuple |-> tpl, caveat |-> cav, name |-> ""]
DeletedNamespace(n) ==
    [kind |-> "deletedNamespace", op |-> "", tuple |-> NoTuple, caveat |-> NoCaveat, name |-> n]
DeletedCaveat(n) ==
    [kind |-> "deletedCaveat", op |-> "", tuple |-> NoTuple, caveat |-> NoCaveat, name |-> n]
ChangedNamespace(n) ==
    [kind |-> "changedNamespace", op |-> "", tuple |-> NoTuple, caveat |-> NoCaveat, name |-> n]
ChangedCaveat(n) ==
    [kind |-> "changedCaveat", op |-> "", tuple |-> NoTuple, caveat |-> NoCaveat, name |-> n]

\* The messages of the spiceerrors.MustBugf calls of the batch handler.
BugKeysMap == "error converting keys map"
BugOldValuesMap == "error converting old values map"
BugNewValuesKeysMap == "error new values keys map"
BugMissingNamespaceName == "missing namespace name value"
BugNamespaceNameType == "error converting namespace name"
BugMissingCaveatName == "missing caveat name"
BugCaveatNameType == "error converting caveat name"
BugMissingNamespaceConfig == "missing namespace config value"
BugNamespaceConfigType == "error converting namespace config value"
BugMissingCaveatDefinition == "missing caveat definition value"
BugCaveatDefinitionType == "error converting caveat definition value"
BugUnknownTable == "unknown table name in delete of change stream"
BugUnknownModType == "unknown modtype in spanner change stream record"

\* ------------------------------------------------------ record decoder
\* contextualizedCaveatFromValues: the caveat of a value column map.
contextualizedCaveatFromValues(values) ==
    IF ~IsString(Get(values, colCaveatName))
    THEN [res |-> "panic", err |-> "interface conversion", caveat |-> NoCaveat]
    ELSE IF Get(values, colCaveatName).v = ""
    THEN [res |-> "ok", err |-> NoErr, caveat |-> NoCaveat]
    ELSE IF Get(values, colCaveatContext) = Nil
    THEN [res |-> "ok", err |-> NoErr,
          caveat |-> [name |-> Get(values, colCaveatName).v, context |-> {}]]
    ELSE IF ~IsString(Get(values, colCaveatContext))
    THEN [res |-> "panic", err |-> "interface conversion", caveat |-> NoCaveat]
    ELSE IF ~JSONValid(Get(values, colCaveatContext).v)
    THEN [res |-> "error", err |-> ErrJSON, caveat |-> NoCaveat]
    ELSE [res |-> "ok", err |-> NoErr,
          caveat |-> [name |-> Get(values, colCaveatName).v,
                      context |-> JSONUnmarshal(Get(values, colCaveatContext).v)]]

PrimaryKeyColumns ==
    <<colNamespace, colObjectID, colRelation,
      colUsersetNamespace, colUsersetObjectID, colUsersetRelation>>

\* Whether every primaryKeyColumnValues[col].(string) succeeds.
PrimaryKeyIsStrings(pk) ==
    \A i \in 1..Len(PrimaryKeyColumns) : IsString(Get(pk, PrimaryKeyColumns[i]))

\* The core.RelationTuple built from the primary key columns.
RelationTupleOf(pk) ==
    [ns |-> Get(pk, colNamespace).v, oid |-> Get(pk, colObjectID).v,
     rel |-> Get(pk, colRelation).v, sns |-> Get(pk, colUsersetNamespace).v,
     soid |-> Get(pk, colUsersetObjectID).v, srel |-> Get(pk, colUsersetRelation).v]

\* A relationship change whose caveat comes from the column map `values`.
RelationshipChangeOf(op, pk, values) ==
    LET c == contextualizedCaveatFromValues(values) IN
    CASE c.res = "panic" -> Panic
      [] c.res = "error" -> Fail(c.err)
      [] OTHER -> Emit(RelEvent(op, RelationTupleOf(pk), c.caveat))

\* case "DELETE"
DecodeDelete(table, mod) ==
    CASE table = tableRelationship ->
            IF ~PrimaryKeyIsStrings(mod.Keys) THEN Panic
            ELSE IF ~mod.OldValues.isMap THEN MustBugf(BugOldValuesMap)
            ELSE RelationshipChangeOf("DELETE", mod.Keys, mod.OldValues)
      [] table = tableNamespace ->
            IF ~Has(mod.Keys, colNamespaceName) THEN MustBugf(BugMissingNamespaceName)
            ELSE IF ~IsString(Get(mod.Keys, colNamespaceName))
            THEN MustBugf(BugNamespaceNameType)
            ELSE Emit(DeletedNamespace(Get(mod.Keys, colNamespaceName).v))
      [] table = tableCaveat ->
            IF ~Has(mod.Keys, colNamespaceName) THEN MustBugf(BugMissingCaveatName)
            ELSE IF ~IsString(Get(mod.Keys, colNamespaceName))
            THEN MustBugf(BugCaveatNameType)
            ELSE Emit(DeletedCaveat(Get(mod.Keys, colNamespaceName).v))
      [] OTHER -> MustBugf(BugUnknownTable)

\* The serialized definition of column `col`, decoded to the definition's name.
DecodeDefinition(values, col, missing, wrongType, kind) ==
    IF ~Has(values, col) THEN MustBugf(missing)
    ELSE IF ~IsString(Get(values, col)) THEN MustBugf(wrongType)
    ELSE IF ~Base64Valid(Get(values, col).v) THEN Fail(ErrUnableToReadConfig)
    ELSE IF ~UnmarshalValid(Base64Decode(Get(values, col).v))
    THEN Fail(ErrUnableToReadConfig)
    ELSE Emit(IF kind = "namespace"
              THEN ChangedNamespace(UnmarshalVT(Base64Decode(Get(values, col).v)))
              ELSE ChangedCaveat(UnmarshalVT(Base64Decode(Get(values, col).v))))

\* A test that looks at the caveat name alone.
UnchangedNameOnly(old, new) == Get(old, colCaveatName) = Get(new, colCaveatName)

\* oldValues[colCaveatName] == newValues[colCaveatName] &&
\* oldValues[colCaveatContext] == newValues[colCaveatContext]
Unchanged(old, new) ==
    /\ Get(old, colCaveatName) = Get(new, colCaveatName)
    /\ Get(old, colCaveatContext) = Get(new, colCaveatContext)

\* case "INSERT", "UPDATE"
DecodeUpsert(table, mod) ==
    IF ~mod.NewValues.isMap THEN MustBugf(BugNewValuesKeysMap)
    ELSE CASE table = tableRelationship ->
            IF ~PrimaryKeyIsStrings(mod.Keys) THEN Panic
            ELSE IF ~mod.OldValues.isMap THEN MustBugf(BugOldValuesMap)
            ELSE IF Unchanged(mod.OldValues, mod.NewValues)
            THEN Skip
            ELSE RelationshipChangeOf("TOUCH", mod.Keys, mod.NewValues)
      [] table = tableNamespace ->
            DecodeDefinition(mod.NewValues, colNamespaceConfig,
                             BugMissingNamespaceConfig, BugNamespaceConfigType,
                             "namespace")
      [] table = tableCaveat ->
            DecodeDefinition(mod.NewValues, colCaveatDefinition,
                             BugMissingCaveatDefinition, BugCaveatDefinitionType,
                             "caveat")
      [] OTHER -> MustBugf(BugUnknownTable)

\* A switch whose case "INSERT" is empty instead of falling through.
DecodeModWithoutFallthrough(table, modType, mod) ==
    IF ~mod.Keys.isMap THEN MustBugf(BugKeysMap)
    ELSE CASE modType = "DELETE" -> DecodeDelete(table, mod)
           [] modType = "INSERT" -> Skip
           [] modType = "UPDATE" -> DecodeUpsert(table, mod)
           [] OTHER -> MustBugf(BugUnknownModType)

\* The body of `for _, mod := range dcr.Mods`: what one modification of a data
\* change record of `table` and `modType` decodes to.
DecodeMod(table, modType, mod) ==
    IF ~mod.Keys.isMap THEN MustBugf(BugKeysMap)
    ELSE CASE modType = "DELETE" -> DecodeDelete(table, mod)
           [] modType \in {"INSERT", "UPDATE"} -> DecodeUpsert(table, mod)
           [] OTHER -> MustBugf(BugUnknownModType)

\* -------------------------------------------------- revision aggregator
\* common.Changes: per revision, the touched and deleted relationships (keyed
\* by the tuple without its caveat) and the changed and deleted definitions.
NewChanges == [r \in {} |-> 0]

EmptyRecord ==
    [touches |-> {}, deletes |-> {}, changedDefinitions |-> {},
     deletedNamespaces |-> {}, deletedCaveats |-> {}]

recordForRevision(tracked, rev) ==
    IF rev \in DOMAIN tracked THEN tracked[rev] ELSE EmptyRecord

WithRecord(tracked, rev, rec) ==
    [r \in DOMAIN tracked \cup {rev} |-> IF r = rev THEN rec ELSE tracked[r]]

WithoutTuple(rels, tpl) == { x \in rels : x.tuple # tpl }

AddRelationshipChange(tracked, content, rev, ev) ==
    IF BitAnd(content, WatchRelationships) # WatchRelationships THEN tracked
    ELSE LET rec == recordForRevision(tracked, rev)
             rel == [tuple |-> ev.tuple, caveat |-> ev.caveat]
         IN IF ev.op = "TOUCH"
            THEN WithRecord(tracked, rev,
                   [rec EXCEPT !.deletes = WithoutTuple(@, ev.tuple),
                               !.touches = WithoutTuple(@, ev.tuple) \cup {rel}])
            ELSE IF \E x \in rec.touches : x.tuple = ev.tuple
                 THEN WithRecord(tracked, rev, rec)
                 ELSE WithRecord(tracked, rev,
                        [rec EXCEPT !.deletes = WithoutTuple(@, ev.tuple) \cup {rel}])

AddChangedDefinition(tracked, content, rev, ev) ==
    IF BitAnd(content, WatchSchema) # WatchSchema THEN tracked
    ELSE LET rec == recordForRevision(tracked, rev) IN
         IF ev.kind = "changedNamespace"
         THEN WithRecord(tracked, rev,
                [rec EXCEPT !.deletedNamespaces = @ \ {ev.name},
                            !.changedDefinitions = @ \cup {<<"ns", ev.name>>}])
         ELSE WithRecord(tracked, rev,
                [rec EXCEPT !.deletedCaveats = @ \ {ev.name},
                            !.changedDefinitions = @ \cup {<<"caveat", ev.name>>}])

AddDeletedNamespace(tracked, content, rev, ev) ==
    IF BitAnd(content, WatchSchema) # WatchSchema THEN tracked
    ELSE LET rec == recordForRevision(tracked, rev) IN
         WithRecord(tracked, rev,
           [rec EXCEPT !.changedDefinitions = @ \ {<<"ns", ev.name>>},
                       !.deletedNamespaces = @ \cup {ev.name}])

AddDeletedCaveat(tracked, content, rev, ev) ==
    IF BitAnd(content, WatchSchema) # WatchSchema THEN tracked
    ELSE LET rec == recordForRevision(tracked, rev) IN
         WithRecord(tracked, rev,
           [rec EXCEPT !.changedDefinitions = @ \ {<<"caveat", ev.name>>},
                       !.deletedCaveats = @ \cup {ev.name}])

\* The tracked.Add... call the handler makes for a decoded event.
Track(tracked, content, rev, ev) ==
    CASE ev.kind = "relationship" -> AddRelationshipChange(tracked, content, rev, ev)
      [] ev.kind = "deletedNamespace" -> AddDeletedNamespace(tracked, content, rev, ev)
      [] ev.kind = "deletedCaveat" -> AddDeletedCaveat(tracked, content, rev, ev)
      [] OTHER -> AddChangedDefinition(tracked, content, rev, ev)

IsEmpty(tracked) == DOMAIN tracked = {}

\* A datastore.RevisionChanges.
RevisionChanges(rev, rec) ==
    [Revision |-> rev, IsCheckpoint |-> FALSE,
     RelationshipChanges |->
        { [op |-> "TOUCH", tuple |-> x.tuple, caveat |-> x.caveat] : x \in rec.touches }
        \cup
        { [op |-> "DELETE", tuple |-> x.tuple, caveat |-> x.caveat] : x \in rec.deletes },
     ChangedDefinitions |-> rec.changedDefinitions,
     DeletedNamespaces |-> rec.deletedNamespaces,
     DeletedCaveats |-> rec.deletedCaveats]

\* A checkpoint built without its flag.
CheckpointUnflagged(rev) ==
    [Revision |-> rev, IsCheckpoint |-> FALSE, RelationshipChanges |-> {},
     ChangedDefinitions |-> {}, DeletedNamespaces |-> {}, DeletedCaveats |-> {}]

\* &datastore.RevisionChanges{Revision: ..., IsCheckpoint: true}
Checkpoint(rev) ==
    [Revision |-> rev, IsCheckpoint |-> TRUE, RelationshipChanges |-> {},
     ChangedDefinitions |-> {}, DeletedNamespaces |-> {}, DeletedCaveats |-> {}]

Min(S) == CHOOSE x \in S : \A y \in S : x <= y
Max(S) == CHOOSE x \in S : \A y \in S : x >= y

RECURSIVE Descending(_)
\* The revisions of S, largest first.
Descending(S) == IF S = {} THEN <<>> ELSE <<Max(S)>> \o Descending(S \ {Max(S)})

RECURSIVE Ascending(_)
\* The revisions of S sorted by revision.DecimalKeyLessThanFunc.
Ascending(S) == IF S = {} THEN <<>> ELSE <<Min(S)>> \o Ascending(S \ {Min(S)})

\* The change sets rendered with the comparison inverted.
AsRevisionChangesDescending(tracked) ==
    LET revs == Descending(DOMAIN tracked) IN
    [i \in 1..Len(revs) |-> RevisionChanges(revs[i], tracked[revs[i]])]

\* The change sets rendered without merging: the relationship changes of a
\* revision in one set, its definition changes in another.
AsRevisionChangesUnmerged(tracked) ==
    LET revs == Ascending(DOMAIN tracked) IN
    [i \in 1..(2 * Len(revs)) |->
       LET r == revs[(i + 1) \div 2] IN
       IF i % 2 = 1
       THEN RevisionChanges(r, [tracked[r] EXCEPT !.changedDefinitions = {},
                                                  !.deletedNamespaces = {},
                                                  !.deletedCaveats = {}])
       ELSE RevisionChanges(r, [tracked[r] EXCEPT !.touches = {}, !.deletes = {}])]

\* tracked.AsRevisionChanges(revision.DecimalKeyLessThanFunc)
AsRevisionChanges(tracked) ==
    LET revs == Ascending(DOMAIN tracked) IN
    [i \in 1..Len(revs) |-> RevisionChanges(revs[i], tracked[revs[i]])]

\* ----------------------------------------------------- the batch handler
RECURSIVE Flatten(_, _)
\* The modifications of the data change records from the i-th on, in the order
\* the two nested loops visit them.
Flatten(dcrs, i) ==
    IF i > Len(dcrs) THEN <<>>
    ELSE [j \in 1..Len(dcrs[i].Mods) |->
            [rev |-> revisionFromTimestamp(dcrs[i].CommitTimestamp),
             table |-> dcrs[i].TableName, modType |-> dcrs[i].ModType,
             mod |-> dcrs[i].Mods[j]]]
         \o Flatten(dcrs, i + 1)

RECURSIVE DecodeAllSkipping(_, _, _, _)
\* A decoder that drops a modification it cannot decode and goes on.
DecodeAllSkipping(mods, i, content, tracked) ==
    IF i > Len(mods)
    THEN [res |-> "ok", err |-> NoErr, tracked |-> tracked, decoded |-> Len(mods)]
    ELSE LET d == DecodeMod(mods[i].table, mods[i].modType, mods[i].mod) IN
         IF d.res = "event"
         THEN DecodeAllSkipping(mods, i + 1, content,
                                Track(tracked, content, mods[i].rev, d.ev))
         ELSE DecodeAllSkipping(mods, i + 1, content, tracked)

RECURSIVE DecodeAllStoppingQuietly(_, _, _, _)
\* A decoder that stops at a modification it cannot decode and hands over
\* what it has tracked by then as if it were done.
DecodeAllStoppingQuietly(mods, i, content, tracked) ==
    IF i > Len(mods)
    THEN [res |-> "ok", err |-> NoErr, tracked |-> tracked, decoded |-> Len(mods)]
    ELSE LET d == DecodeMod(mods[i].table, mods[i].modType, mods[i].mod) IN
         CASE d.res = "event" ->
                DecodeAllStoppingQuietly(mods, i + 1, content,
                                         Track(tracked, content, mods[i].rev, d.ev))
           [] d.res = "skip" -> DecodeAllStoppingQuietly(mods, i + 1, content, tracked)
           [] OTHER -> [res |-> "ok", err |-> NoErr, tracked |-> tracked, decoded |-> i]

RECURSIVE DecodeAll(_, _, _, _)
\* The two decode loops over one change record: every modification from the
\* i-th on is decoded and tracked, until one returns an error or panics.
DecodeAll(mods, i, content, tracked) ==
    IF i > Len(mods)
    THEN [res |-> "ok", err |-> NoErr, tracked |-> tracked, decoded |-> Len(mods)]
    ELSE LET d == DecodeMod(mods[i].table, mods[i].modType, mods[i].mod) IN
         CASE d.res = "event" ->
                DecodeAll(mods, i + 1, content, Track(tracked, content, mods[i].rev, d.ev))
           [] d.res = "skip" -> DecodeAll(mods, i + 1, content, tracked)
           [] OTHER ->
                [res |-> d.res, err |-> d.err, tracked |-> tracked, decoded |-> i]

\* The checkpoints for the heartbeat records, with the checkpoints bit ignored.
HeartbeatChangesUngated(content, hbs) ==
    [i \in 1..Len(hbs) |-> Checkpoint(revisionFromTimestamp(hbs[i].Timestamp))]

\* The change sets of the heartbeat records of one change record.
HeartbeatChanges(content, hbs) ==
    IF BitAnd(content, WatchCheckpoints) = WatchCheckpoints
    THEN [i \in 1..Len(hbs) |-> Checkpoint(revisionFromTimestamp(hbs[i].Timestamp))]
    ELSE <<>>

\* The data change sets sent from the highest revision down.
DataChangesDescending(tracked) ==
    IF IsEmpty(tracked) THEN <<>> ELSE AsRevisionChangesDescending(tracked)

\* The data change sets of one change record, in the order they are sent.
DataChanges(tracked) == IF IsEmpty(tracked) THEN <<>> ELSE AsRevisionChanges(tracked)

\* Checkpoints sent ahead of the data change sets.
SendOrderCheckpointsFirst(data, checkpoints) == checkpoints \o data

\* The order in which the handler sends what one change record yields.
SendOrder(data, checkpoints) == data \o checkpoints

\* ------------------------------------------------- what the stream hands out
RelKeys ==
    MapOf({ <<colNamespace, Str("document")>>, <<colObjectID, Str("firstdoc")>>,
            <<colRelation, Str("viewer")>>, <<colUsersetNamespace, Str("team")>>,
            <<colUsersetObjectID, Str("firstteam")>>,
            <<colUsersetRelation, Str("member")>> })

\* A primary key without its object_id column.
RelKeysMissingColumn == MapOf({ p \in RelKeys.cols : p[1] # colObjectID })

CaveatValues(name, context) ==
    MapOf({ <<colCaveatName, name>>, <<colCaveatContext, context>> })

Mod(keys, old, new) == [Keys |-> keys, OldValues |-> old, NewValues |-> new]

ModInsertRelationship == Mod(RelKeys, EmptyMap, CaveatValues(Str(""), Nil))
ModTouchUnchanged ==
    Mod(RelKeys, CaveatValues(Str("expiration"), Str("{}")),
                 CaveatValues(Str("expiration"), Str("{}")))
ModUpsertNamespace ==
    Mod(MapOf({<<colNamespaceName, Str("document")>>}), EmptyMap,
        MapOf({<<colNamespaceConfig, Str("Cghkb2N1bWVudA==")>>}))
ModMissingKeyColumn == Mod(RelKeysMissingColumn, CaveatValues(Str(""), Nil), EmptyMap)

Shape(table, modType, mods) == [TableName |-> table, ModType |-> modType, Mods |-> mods]

\* The data change records of a session, without their commit timestamps.
SessionShapes ==
    { Shape(tableRelationship, "INSERT", <<ModInsertRelationship>>),
      Shape(tableRelationship, "UPDATE", <<ModTouchUnchanged>>),
      Shape(tableNamespace, "INSERT", <<ModUpsertNamespace>>),
      Shape("relation_tuple_counter", "INSERT", <<ModUpsertNamespace, ModUpsertNamespace>>),
      Shape(tableRelationship, "TRUNCATE", <<ModInsertRelationship>>),
      Shape(tableRelationship, "DELETE", <<ModMissingKeyColumn>>) }

DataChangeRecord(shape, ts) ==
    [CommitTimestamp |-> ts, TableName |-> shape.TableName,
     ModType |-> shape.ModType, Mods |-> shape.Mods]

\* The sequences of n data change records committed at one of the timestamps
\* from lo to hi, in any order.
DataChangeRecords(n, lo, hi) ==
    [1..n -> { DataChangeRecord(sh, ts) :
                 sh \in SessionShapes,
                 ts \in { t \in lo..hi : t <= MaxTs } }]

\* The primary key column maps a modification may carry.
DecoderKeys ==
    { RelKeys, RelKeysMissingColumn, NotAMap,
      MapOf({<<colNamespaceName, Str("document")>>}),
      MapOf({<<colNamespaceName, NonStr>>}),
      MapOf({<<colName, Str("expiration")>>}) }

\* The old and new value column maps a modification may carry.
DecoderValues ==
    { EmptyMap, NotAMap,
      CaveatValues(Str(""), Nil),
      CaveatValues(Str(""), Str("{\"x\":9001}")),
      CaveatValues(Str("expiration"), Nil),
      CaveatValues(Str("expiration"), Str("{}")),
      CaveatValues(Str("expiration"), Str("{\"x\":9001}")),
      CaveatValues(Str("expiration"), Str("{")),
      CaveatValues(Str("expiration"), NonStr),
      CaveatValues(Nil, Nil),
      CaveatValues(NonStr, Nil),
      MapOf({<<colNamespaceConfig, Str("Cghkb2N1bWVudA==")>>}),
      MapOf({<<colNamespaceConfig, Str("Cv8=")>>}),
      MapOf({<<colNamespaceConfig, Str("%%")>>}),
      MapOf({<<colNamespaceConfig, NonStr>>}),
      MapOf({<<colCaveatDefinition, Str("CgpleHBpcmF0aW9u")>>}) }

\* The modifications the decoder is handed one at a time: the table and kind
\* of their data change record, and their three column maps.
DecoderInputs ==
    [TableName : {tableRelationship, tableNamespace, tableCaveat, "relation_tuple_counter"},
     ModType : {"INSERT", "UPDATE", "DELETE", "TRUNCATE"},
     Keys : DecoderKeys, OldValues : DecoderValues, NewValues : DecoderValues]

\* No modification at hand.
NoMod ==
    [TableName |-> "", ModType |-> "", Keys |-> NotAMap, OldValues |-> NotAMap,
     NewValues |-> NotAMap]

\* The loop body has not run.
NotDecoded == [res |-> "none", err |-> NoErr, ev |-> NoEvent]

\* The n heartbeat records that follow timestamp lo.
HeartbeatRecords(n, lo) == [i \in 1..n |-> [Timestamp |-> lo + i]]

LatestTimestamp(dcrs, lo) == Max({lo} \cup { dcrs[i].CommitTimestamp : i \in 1..Len(dcrs) })

\* ------------------------------------------------------------- the state
VARIABLES
    content,        \* opts.Content
    database,       \* sd.database
    ctxErr,         \* ctx.Err() as sendError reads it: "nil" or "Canceled"
    pc,             \* where the producer goroutine is
    err,            \* the error the producer is about to report
    updates,        \* the data channel's buffer
    errs,           \* the error channel's buffer
    updatesClosed,  \* close(updates) calls so far
    errsClosed,     \* close(errs) calls so far
    reader,         \* "none", "open" or "closed"
    readerCloses,   \* reader.Close() calls so far
    stream,         \* the change stream the reader was opened on
    defers,         \* the deferred calls of watch, last one on top
    panicking,      \* the goroutine is unwinding after a panic
    plan,           \* the change sets of the current change record, in send order
    sent,           \* how many of them sendChange has been called for
    streamTs,       \* the latest timestamp the stream has handed out
    dataLeft,       \* data change records the stream may still hand out
    openTs,         \* the latest timestamp is a commit whose data may go on
    errsSent,       \* history: every value written to errs
    failCtx,        \* history: ctx.Err() at the moment the session failed
    lastSentRev,    \* history: revision of the last change set put on updates
    maxSentRev,     \* history: largest revision put on updates
    cpInBatch,      \* history: a checkpoint of the current batch was put
    lostChanges,    \* history: the change record whose decoding failed had
                    \* changes in its tracker by then
    batchDataRev,   \* history: revision of the last data change set of the
                    \* current batch that was put, 0 when there is none
    curHBs,         \* history: the heartbeat records of the current change record
    cpPut,          \* history: checkpoints put on updates
    hbSeen,         \* history: heartbeat records handed to the handler
    fullSeen,       \* history: a sendChange found updates full
    unknownAt,      \* history: position of a modification of unknown table or kind
    decodedTo,      \* history: position the decode loops stopped at for it
    closedWrites,   \* history: writes to a channel after its close
    modIn,          \* the modification the loop over dcr.Mods is at
    modOut          \* what the loop body made of it

chans == <<updates, errs, updatesClosed, errsClosed, closedWrites>>
opts == <<content, database>>
rdr == <<reader, readerCloses, stream>>
handler == <<plan, sent, curHBs>>
input == <<streamTs, dataLeft, openTs>>
hist == <<errsSent, failCtx, lastSentRev, maxSentRev, cpInBatch, batchDataRev, cpPut,
          hbSeen, fullSeen, unknownAt, decodedTo, lostChanges>>
dec == <<modIn, modOut>>
vars == <<opts, ctxErr, pc, err, chans, rdr, defers, panicking, handler, input, hist, dec>>

\* A variant of the deferred calls that leaves the error channel open.
EntryDefersWithoutErrs == <<"close(updates)">>

\* The two closes deferred the other way round.
EntryDefersSwapped == <<"close(errs)", "close(updates)">>

\* defer close(updates); defer close(errs)
EntryDefers == <<"close(updates)", "close(errs)">>

\* A sendError that reports the error as it is.
sendErrorRaw(ctx, e) == e

\* The value sendError writes to errs.
sendError(ctx, e) == IF ctx = "Canceled" THEN ErrWatchCanceled ELSE e

\* A test that reports whatever Read returned.
ReadFailedAlways(e) == TRUE

\* if err != nil, after reader.Read
ReadFailed(e) == e # NoErr

\* A handler that goes on after a failed sendChange.
OnSendChangeIgnored(ok) == NoErr

\* What the handler returns after sendChange: nil to go on, or the disconnect.
OnSendChange(ok) == IF ok THEN NoErr ELSE ErrWatchDisconnected

\* The select of sendChange: whether the buffer takes one more change.
sendChange(queue) == Len(queue) < UpdatesCapacity

\* The state after Watch has made the two channels and started the producer,
\* for a watch after revision `after` on a stream that holds `data` more data
\* change records.
InitAt(after, data) ==
    /\ content \in 0..7
    /\ database \in DatabaseNames
    /\ ctxErr = "nil"
    /\ pc = "start"
    /\ err = NoErr
    /\ updates = <<>> /\ errs = <<>>
    /\ updatesClosed = 0 /\ errsClosed = 0 /\ closedWrites = 0
    /\ reader = "none" /\ readerCloses = 0 /\ stream = ""
    /\ defers = EntryDefers
    /\ panicking = FALSE
    /\ plan = <<>> /\ sent = 0 /\ curHBs = <<>>
    /\ streamTs = after
    /\ dataLeft = data
    /\ openTs = FALSE
    /\ errsSent = <<>> /\ failCtx = "none"
    /\ lastSentRev = 0 /\ maxSentRev = 0
    /\ cpInBatch = FALSE /\ batchDataRev = 0 /\ cpPut = 0 /\ hbSeen = 0 /\ fullSeen = FALSE
    /\ unknownAt = 0 /\ decodedTo = 0 /\ lostChanges = FALSE
    /\ modIn = NoMod /\ modOut = NotDecoded

\* A watch that starts late in the stream.
Init == InitAt(MaxTs - LateTicks, MaxData)

\* A watch that starts at the beginning of the stream: the stream is long
\* enough to fill the data channel.
LongInit == InitAt(0, MaxDataEarly)

\* The producer leaves with error e: sendError(e) comes next.
FailWith(e) ==
    /\ err' = e
    /\ failCtx' = ctxErr
    /\ pc' = "sendError"

\* project, instance, database, err := parseDatabaseName(sd.database)
ParseDatabaseName ==
    /\ pc = "start"
    /\ IF parseDatabaseName(database) # NoErr
       THEN FailWith(parseDatabaseName(database))
       ELSE pc' = "open" /\ UNCHANGED <<err, failCtx>>
    /\ UNCHANGED <<dec, opts, ctxErr, chans, rdr, defers, panicking, handler, input,
                   errsSent, lastSentRev, maxSentRev, cpInBatch, batchDataRev, cpPut, hbSeen, fullSeen,
                   unknownAt, decodedTo, lostChanges>>

\* The reader opened without its release being deferred.
NewReaderWithoutDefer ==
    /\ pc = "open"
    /\ \E ok \in BOOLEAN :
         IF ok
         THEN /\ reader' = "open"
              /\ stream' = changeStreamName(content)
              /\ pc' = "read"
              /\ UNCHANGED <<err, failCtx, defers>>
         ELSE /\ FailWith(ErrOpen)
              /\ UNCHANGED <<reader, stream, defers>>
    /\ UNCHANGED <<dec, opts, ctxErr, chans, readerCloses, panicking, handler, input,
                   errsSent, lastSentRev, maxSentRev, cpInBatch, batchDataRev, cpPut, hbSeen,
                   fullSeen, unknownAt, decodedTo, lostChanges>>

\* changestreams.NewReaderWithConfig, and defer reader.Close() when it succeeds
NewReader ==
    /\ pc = "open"
    /\ \E ok \in BOOLEAN :
         IF ok
         THEN /\ reader' = "open"
              /\ stream' = changeStreamName(content)
              /\ defers' = Append(defers, "reader.Close()")
              /\ pc' = "read"
              /\ UNCHANGED <<err, failCtx>>
         ELSE /\ FailWith(ErrOpen)
              /\ UNCHANGED <<reader, stream, defers>>
    /\ UNCHANGED <<dec, opts, ctxErr, chans, readerCloses, panicking, handler, input,
                   errsSent, lastSentRev, maxSentRev, cpInBatch, batchDataRev, cpPut, hbSeen, fullSeen,
                   unknownAt, decodedTo, lostChanges>>

\* reader.Read calls the batch handler with a read result: its first change
\* record comes next
ReadBatch ==
    /\ pc = "read"
    /\ pc' = "record"
    /\ cpInBatch' = FALSE /\ batchDataRev' = 0
    /\ UNCHANGED <<dec, opts, ctxErr, err, chans, rdr, defers, panicking, plan, sent, curHBs,
                   input, errsSent, failCtx, lastSentRev, maxSentRev, cpPut, hbSeen,
                   fullSeen, unknownAt, decodedTo, lostChanges>>

\* reader.Read returns e, an error of its own or nil
ReadReturns ==
    /\ pc = "read"
    /\ \E e \in {ErrRead, NoErr} :
         IF ReadFailed(e)
         THEN FailWith(e)
         ELSE pc' = "return" /\ UNCHANGED <<err, failCtx>>
    /\ UNCHANGED <<dec, opts, ctxErr, chans, rdr, defers, panicking, handler, input,
                   errsSent, lastSentRev, maxSentRev, cpInBatch, batchDataRev, cpPut, hbSeen, fullSeen,
                   unknownAt, decodedTo, lostChanges>>

\* The position of the first modification that decodes to no event and is not
\* skipped, when it is one of unknown table or unknown kind; 0 otherwise.
UnknownAt(mods) ==
    LET bad == { i \in 1..Len(mods) :
                   DecodeMod(mods[i].table, mods[i].modType, mods[i].mod).res
                     \in {"error", "panic"} }
    IN IF bad = {} THEN 0
       ELSE IF DecodeMod(mods[Min(bad)].table, mods[Min(bad)].modType,
                         mods[Min(bad)].mod).err
                 \in {BugUnknownTable, BugUnknownModType}
            THEN Min(bad) ELSE 0

\* The handler is done with a change record: the loop goes on with the next
\* one of the read result, or the handler returns nil to Read. cp tells
\* whether a checkpoint of the batch has been put, rev the revision of the
\* last data change set of the batch that has been put.
NextRecord(cp, rev) ==
    /\ \E more \in BOOLEAN :
         /\ pc' = IF more THEN "record" ELSE "read"
         /\ cpInBatch' = (more /\ cp)
         /\ batchDataRev' = IF more THEN rev ELSE 0
    /\ plan' = <<>> /\ sent' = 0 /\ curHBs' = <<>>

\* One turn of `for _, record := range result.ChangeRecords` up to the first
\* sendChange: the decode loops over the record's data change records.
HandleRecord ==
    /\ pc = "record"
    /\ \E nd \in 0..(IF dataLeft < MaxDCR THEN dataLeft ELSE MaxDCR) :
       \E dcrs \in DataChangeRecords(nd, IF openTs THEN streamTs ELSE streamTs + 1,
                                          streamTs + nd) :
         LET latest == LatestTimestamp(dcrs, streamTs)
             mods == Flatten(dcrs, 1)
             d == DecodeAll(mods, 1, content, NewChanges)
             data == DataChanges(d.tracked)
             unknown == UnknownAt(mods)
         IN \E nh \in 0..MaxHB :
              LET hbs == HeartbeatRecords(nh, latest)
                  out == SendOrder(data, HeartbeatChanges(content, hbs))
              IN /\ latest + nh <= MaxTs
                 /\ dataLeft' = dataLeft - nd
                 /\ hbSeen' = hbSeen + nh
                 /\ streamTs' = latest + nh
                 /\ openTs' = IF nh > 0 THEN FALSE ELSE (nd > 0 \/ openTs)
                 /\ unknownAt' = unknown
                 /\ decodedTo' = IF unknown = 0 THEN 0 ELSE d.decoded
                 /\ lostChanges' = (d.res # "ok" /\ ~IsEmpty(d.tracked))
                 /\ CASE d.res = "ok" /\ out = <<>> ->
                           /\ NextRecord(cpInBatch, batchDataRev)
                           /\ UNCHANGED <<err, failCtx, panicking>>
                      [] d.res = "ok" /\ out # <<>> ->
                           /\ plan' = out /\ sent' = 0 /\ curHBs' = hbs
                           /\ pc' = "send"
                           /\ UNCHANGED <<err, failCtx, panicking, cpInBatch, batchDataRev>>
                      [] d.res = "error" ->
                           /\ FailWith(d.err)
                           /\ cpInBatch' = FALSE /\ batchDataRev' = 0
                           /\ UNCHANGED <<panicking, handler>>
                      [] OTHER ->
                           /\ \E unwinds \in BOOLEAN :
                                /\ pc' = IF unwinds THEN "return" ELSE "crashed"
                                /\ panicking' = unwinds
                           /\ cpInBatch' = FALSE /\ batchDataRev' = 0
                           /\ UNCHANGED <<err, failCtx, handler>>
    /\ UNCHANGED <<dec, opts, ctxErr, chans, rdr, defers, errsSent, lastSentRev, maxSentRev,
                   cpPut, fullSeen>>

\* sendChange for the next change set of the record, and what the handler does
\* with its result.
SendChange ==
    /\ pc = "send"
    /\ sent < Len(plan)
    /\ LET change == plan[sent + 1]
           ok == sendChange(updates)
           cp == cpInBatch \/ (ok /\ change.IsCheckpoint)
           rev == IF ok /\ ~change.IsCheckpoint THEN change.Revision ELSE batchDataRev
       IN /\ IF ok
             THEN /\ updates' = Append(updates, change)
                  /\ closedWrites' = closedWrites + (IF updatesClosed > 0 THEN 1 ELSE 0)
                  /\ lastSentRev' = change.Revision
                  /\ maxSentRev' = IF change.Revision > maxSentRev
                                   THEN change.Revision ELSE maxSentRev
                  /\ cpPut' = cpPut + (IF change.IsCheckpoint THEN 1 ELSE 0)
                  /\ UNCHANGED fullSeen
             ELSE /\ fullSeen' = TRUE
                  /\ UNCHANGED <<updates, closedWrites, lastSentRev, maxSentRev, cpPut>>
          /\ IF OnSendChange(ok) # NoErr
             THEN /\ FailWith(OnSendChange(ok))
                  /\ cpInBatch' = FALSE /\ batchDataRev' = 0
                  /\ plan' = <<>> /\ sent' = 0 /\ curHBs' = <<>>
             ELSE /\ UNCHANGED <<err, failCtx>>
                  /\ IF sent + 1 = Len(plan)
                     THEN NextRecord(cp, rev)
                     ELSE /\ sent' = sent + 1
                          /\ cpInBatch' = cp /\ batchDataRev' = rev
                          /\ UNCHANGED <<pc, plan, curHBs>>
    /\ UNCHANGED <<dec, opts, ctxErr, errs, updatesClosed, errsClosed, rdr, defers, panicking,
                   input, errsSent, hbSeen, unknownAt, decodedTo, lostChanges>>

\* sendError(err)
SendError ==
    /\ pc = "sendError"
    /\ Len(errs) < ErrsCapacity
    /\ errs' = Append(errs, sendError(ctxErr, err))
    /\ errsSent' = Append(errsSent, sendError(ctxErr, err))
    /\ closedWrites' = closedWrites + (IF errsClosed > 0 THEN 1 ELSE 0)
    /\ pc' = "return"
    /\ UNCHANGED <<dec, opts, ctxErr, err, updates, updatesClosed, errsClosed, rdr, defers,
                   panicking, handler, input, failCtx, lastSentRev, maxSentRev,
                   cpInBatch, batchDataRev, cpPut, hbSeen, fullSeen, unknownAt,
                   decodedTo, lostChanges>>

\* The goroutine leaves watch: the deferred call on top runs; after the last
\* one the goroutine has ended, or the process has if it was panicking.
RunDeferred ==
    /\ pc = "return"
    /\ defers # <<>>
    /\ LET call == defers[Len(defers)] IN
         /\ reader' = IF call = "reader.Close()" THEN "closed" ELSE reader
         /\ readerCloses' = readerCloses + (IF call = "reader.Close()" THEN 1 ELSE 0)
         /\ errsClosed' = errsClosed + (IF call = "close(errs)" THEN 1 ELSE 0)
         /\ updatesClosed' = updatesClosed + (IF call = "close(updates)" THEN 1 ELSE 0)
    /\ defers' = SubSeq(defers, 1, Len(defers) - 1)
    /\ pc' = IF Len(defers) > 1 THEN "return"
             ELSE IF panicking THEN "crashed" ELSE "done"
    /\ UNCHANGED <<dec, opts, ctxErr, err, updates, errs, closedWrites, stream, panicking,
                   handler, input, hist>>

\* The consumer receives from the data channel.
RecvUpdate ==
    /\ pc # "crashed"
    /\ updates # <<>>
    /\ updates' = Tail(updates)
    /\ UNCHANGED <<dec, opts, ctxErr, pc, err, errs, updatesClosed, errsClosed, closedWrites,
                   rdr, defers, panicking, handler, input, hist>>

\* The consumer receives from the error channel.
RecvErr ==
    /\ pc # "crashed"
    /\ errs # <<>>
    /\ errs' = Tail(errs)
    /\ UNCHANGED <<dec, opts, ctxErr, pc, err, updates, updatesClosed, errsClosed,
                   closedWrites, rdr, defers, panicking, handler, input, hist>>

\* The caller cancels the context. The producer reads ctx.Err() in sendError
\* only, so a cancellation after sendError has run changes nothing.
ContextDone ==
    /\ pc \in {"start", "open", "read", "record", "send", "sendError"}
    /\ ctxErr = "nil"
    /\ ctxErr' = "Canceled"
    /\ UNCHANGED <<dec, opts, pc, err, chans, rdr, defers, panicking, handler, input, hist>>

Next ==
    \/ ParseDatabaseName
    \/ NewReader
    \/ ReadBatch
    \/ ReadReturns
    \/ HandleRecord
    \/ SendChange
    \/ SendError
    \/ RunDeferred
    \/ RecvUpdate
    \/ RecvErr
    \/ ContextDone

Spec == Init /\ [][Next]_vars

LongSpec == LongInit /\ [][Next]_vars

\* The late watch under the Go scheduler: the producer goroutine is the only
\* one that can take its steps, so a step of it that stays possible is taken.
\* Nothing is assumed of the consumer: it may never receive.
FairSpec ==
    /\ Init
    /\ [][Next]_vars
    /\ WF_vars(SendError)
    /\ WF_vars(RunDeferred)

\* ------------------------------------------------- the decoder on its own
\* The handler at the top of the body of `for _, mod := range dcr.Mods`, with
\* any one modification at hand.
DecodeInit ==
    /\ content = BitOr(BitOr(WatchRelationships, WatchSchema), WatchCheckpoints)
    /\ database = <<"projects", "p", "instances", "i", "databases", "d">>
    /\ ctxErr = "nil"
    /\ pc = "mod"
    /\ err = NoErr
    /\ updates = <<>> /\ errs = <<>>
    /\ updatesClosed = 0 /\ errsClosed = 0 /\ closedWrites = 0
    /\ reader = "open" /\ readerCloses = 0 /\ stream = changeStreamName(content)
    /\ defers = Append(EntryDefers, "reader.Close()")
    /\ panicking = FALSE
    /\ plan = <<>> /\ sent = 0 /\ curHBs = <<>>
    /\ streamTs = 0
    /\ dataLeft = 0
    /\ openTs = FALSE
    /\ errsSent = <<>> /\ failCtx = "none"
    /\ lastSentRev = 0 /\ maxSentRev = 0
    /\ cpInBatch = FALSE /\ batchDataRev = 0 /\ cpPut = 0 /\ hbSeen = 0 /\ fullSeen = FALSE
    /\ unknownAt = 0 /\ decodedTo = 0 /\ lostChanges = FALSE
    /\ modIn \in DecoderInputs
    /\ modOut = NotDecoded

\* One turn of the body of `for _, mod := range dcr.Mods`.
DecodeModification ==
    /\ pc = "mod"
    /\ modOut' = DecodeMod(modIn.TableName, modIn.ModType,
                           Mod(modIn.Keys, modIn.OldValues, modIn.NewValues))
    /\ pc' = "decoded"
    /\ UNCHANGED <<modIn, opts, ctxErr, err, chans, rdr, defers, panicking, handler,
                   input, hist>>

DecodeNext == DecodeModification

DecodeSpec == DecodeInit /\ [][DecodeNext]_vars

\* ---------------------------------------------------------------- claims
IsCheckpointSet(c) == c.IsCheckpoint

CarriesNoData(c) ==
    /\ c.RelationshipChanges = {}
    /\ c.ChangedDefinitions = {}
    /\ c.DeletedNamespaces = {}
    /\ c.DeletedCaveats = {}

\* This step puts a change set on the data channel.
Puts == Len(updates') > Len(updates)

\* This step puts a change set that is no checkpoint on the data channel.
PutsData == Puts /\ ~updates'[Len(updates')].IsCheckpoint

\* C1: neither channel is closed twice, nothing is written to a closed
\* channel, and once the goroutine has returned, on whatever path, each of the
\* two channels has been closed exactly once.
C1_ChannelsClosedOnce ==
    /\ updatesClosed <= 1
    /\ errsClosed <= 1
    /\ closedWrites = 0
    /\ pc = "done" => updatesClosed = 1 /\ errsClosed = 1

\* A session that ended on a full data queue, with both channels closed.
C1_Witness ==
    /\ pc = "done"
    /\ fullSeen
    /\ updatesClosed = 1 /\ errsClosed = 1
    /\ Len(updates) = UpdatesCapacity

\* C2 as stated: a session that found the data queue full has put the
\* watch-disconnected error, and only it, on the error channel.
C2_DisconnectedAlways ==
    (fullSeen /\ pc = "done") => errsSent = <<ErrWatchDisconnected>>

\* C2 amended: once a sendChange has found the data queue full the session is
\* on its way out with the disconnect error and nothing more is put on the data
\* queue; the error channel gets exactly one error, the watch-disconnected
\* error, or the watch-canceled error when the context is canceled by the time
\* sendError runs.
C2_FullQueueEndsSession ==
    /\ [](fullSeen =>
            /\ pc \in {"sendError", "return", "done"}
            /\ err = ErrWatchDisconnected
            /\ Len(errsSent) <= 1
            /\ pc \in {"return", "done"} =>
                 /\ Len(errsSent) = 1
                 /\ errsSent[1] \in {ErrWatchDisconnected, ErrWatchCanceled}
                 /\ errsSent[1] = ErrWatchCanceled => ctxErr = "Canceled"
                 /\ failCtx = "Canceled" => errsSent[1] = ErrWatchCanceled
                 /\ ctxErr # "Canceled" => errsSent[1] = ErrWatchDisconnected)
    /\ [][fullSeen => ~Puts]_vars

\* A full queue, no cancellation: the disconnect error was delivered.
C2_Witness ==
    /\ fullSeen
    /\ pc = "done"
    /\ ctxErr = "nil"
    /\ errsSent = <<ErrWatchDisconnected>>
    /\ Len(updates) = UpdatesCapacity

\* C3: when the context is canceled at the moment the session fails, whatever
\* the failure is, the only value the error channel ever gets is the
\* watch-canceled error, and it has got it once sendError has run.
C3_CanceledNormalized ==
    failCtx = "Canceled" =>
        /\ errsSent \in {<<>>, <<ErrWatchCanceled>>}
        /\ pc \in {"return", "done"} => errsSent = <<ErrWatchCanceled>>

\* A canceled session that failed on a full data queue.
C3_Witness ==
    /\ failCtx = "Canceled"
    /\ err = ErrWatchDisconnected
    /\ pc = "done"
    /\ errsSent = <<ErrWatchCanceled>>

\* C4: with a stream that hands out change records in timestamp order (the
\* data change records of one change record in any order, its heartbeats
\* after them), the change sets are put on the data queue in non-decreasing
\* revision order: no put is below an earlier one.
C4_NonDecreasingRevisions ==
    /\ lastSentRev = maxSentRev
    /\ \A i \in 1..(Len(updates) - 1) : updates[i].Revision <= updates[i + 1].Revision

\* Two data change sets of different revisions and a checkpoint in the queue.
C4_Witness ==
    /\ Len(updates) >= 3
    /\ ~updates[1].IsCheckpoint
    /\ ~updates[2].IsCheckpoint
    /\ updates[1].Revision < updates[2].Revision
    /\ updates[3].IsCheckpoint

\* C5 as stated: no data change set is put after a checkpoint of the same
\* batch (one call of the handler) has been put.
C5_CheckpointsAfterBatchData == [][PutsData => ~cpInBatch]_vars

\* C5 amended: within one change record of a batch, no data change set is put
\* after a checkpoint of that change record has been put.
C5_CheckpointsAfterRecordData ==
    [][PutsData => ~(\E i \in 1..sent : plan[i].IsCheckpoint)]_vars

\* A change record whose data change set and first checkpoint have been put.
C5_Witness ==
    /\ pc = "send"
    /\ sent = 2
    /\ ~plan[1].IsCheckpoint
    /\ plan[2].IsCheckpoint
    /\ Len(updates) >= 2
    /\ updates[Len(updates)] = plan[2]
    /\ updates[Len(updates) - 1] = plan[1]

\* C6: without the checkpoints bit no checkpoint is ever put on the data
\* queue; with it, the change sets a change record yields for its heartbeat
\* records are one per heartbeat, flagged, at the heartbeat's timestamp and
\* without data, and when the handler is between change records every
\* heartbeat it has been handed has put one checkpoint.
C6_CheckpointGating ==
    /\ \A i \in 1..Len(updates) : updates[i].IsCheckpoint => CarriesNoData(updates[i])
    /\ BitAnd(content, WatchCheckpoints) # WatchCheckpoints =>
         /\ cpPut = 0
         /\ \A i \in 1..Len(updates) : ~updates[i].IsCheckpoint
         /\ \A i \in 1..Len(plan) : ~plan[i].IsCheckpoint
    /\ BitAnd(content, WatchCheckpoints) = WatchCheckpoints =>
         /\ pc \in {"read", "record"} => cpPut = hbSeen
         /\ pc = "send" =>
              SelectSeq(plan, IsCheckpointSet)
                = [i \in 1..Len(curHBs) |->
                     [Revision |-> curHBs[i].Timestamp, IsCheckpoint |-> TRUE,
                      RelationshipChanges |-> {}, ChangedDefinitions |-> {},
                      DeletedNamespaces |-> {}, DeletedCaveats |-> {}]]

\* Checkpoints requested, and every heartbeat handed so far became one.
C6_Witness ==
    /\ BitAnd(content, WatchCheckpoints) = WatchCheckpoints
    /\ pc = "read"
    /\ hbSeen >= 2
    /\ cpPut = hbSeen

\* C7 as stated: every session that has returned wrote exactly one error.
C7_ExactlyOneError == pc = "done" => Len(errsSent) = 1

\* C7 amended: at most one error is ever written to the error channel;
\* a session that has returned wrote exactly one if it ended on an error
\* (parse, open, read, decode, full queue) and none if Read returned nil, and
\* a producer that panicked wrote none.
C7_AtMostOneError ==
    /\ Len(errsSent) <= 1
    /\ pc = "done" => (Len(errsSent) = 1 <=> err # NoErr)
    /\ (pc = "crashed" \/ panicking) => errsSent = <<>>

\* Read returned nil: the session is over and no error was written.
C7_Witness ==
    /\ pc = "done"
    /\ err = NoErr
    /\ reader = "closed"
    /\ errsSent = <<>>
    /\ updatesClosed = 1 /\ errsClosed = 1

\* C8 as stated: a modification of unknown table or kind ends the session
\* with the invariant error on the error channel.
C8_UnknownGivesInvariantError ==
    (unknownAt > 0 /\ pc = "done") =>
        errsSent \in {<<BugUnknownTable>>, <<BugUnknownModType>>}

\* C8 amended: a modification of unknown table or kind stops the decode loops
\* at that modification and ends the session with the invariant error; nothing
\* is put on the data queue afterwards, and the error channel gets that error,
\* or the watch-canceled error when the context is canceled by the time
\* sendError runs.
C8_UnknownAbortsSession ==
    /\ [](unknownAt > 0 =>
            /\ decodedTo = unknownAt
            /\ pc \in {"sendError", "return", "done"}
            /\ err \in {BugUnknownTable, BugUnknownModType}
            /\ plan = <<>>
            /\ pc \in {"return", "done"} =>
                 \/ errsSent = <<err>>
                 \/ errsSent = <<ErrWatchCanceled>> /\ ctxErr = "Canceled"
            /\ (pc \in {"return", "done"} /\ ctxErr # "Canceled") => errsSent = <<err>>)
    /\ [][unknownAt > 0 => ~Puts]_vars

\* An unknown table in the first of two modifications, after a delivery.
C8_Witness ==
    /\ unknownAt = 1
    /\ decodedTo = 1
    /\ pc = "done"
    /\ errsSent = <<BugUnknownTable>>
    /\ updates # <<>>

\* C9 as stated: no column value makes the producer fail at run time; a
\* missing or wrongly typed column ends the session with an error instead.
C9_NoRuntimeFailure == pc # "crashed" /\ ~panicking

\* C10: the reader is opened on the relationships stream for the mask
\* {relationships}, on the schema stream for every mask within {schema,
\* checkpoints}, the empty one included, and on the combined stream otherwise.
C10_StreamSelection ==
    reader # "none" =>
        stream = CASE content = 1 -> RelationTupleChangeStreamName
                   [] content \in {0, 2, 4, 6} -> SchemaChangeStreamName
                   [] OTHER -> CombinedChangeStreamName

\* The empty mask opened the schema stream.
C10_Witness ==
    /\ reader = "open"
    /\ content = 0
    /\ stream = SchemaChangeStreamName

\* ------------------------------------------------- claims on the decoder
\* The tuple of the primary key columns of RelKeys.
RelKeysTuple ==
    [ns |-> "document", oid |-> "firstdoc", rel |-> "viewer",
     sns |-> "team", soid |-> "firstteam", srel |-> "member"]

\* The caveat columns of a value map hold a caveat the decoder can build: a
\* string name and, for a name that is not empty, no context or a string of
\* valid JSON.
CaveatColumnsWellFormed(values) ==
    /\ values.isMap
    /\ \E p \in values.cols : p[1] = colCaveatName /\ p[2].t = "string"
    /\ \A p \in values.cols :
         (p[1] = colCaveatName /\ p[2].v # "") =>
            \A q \in values.cols :
               q[1] = colCaveatContext =>
                  \/ q[2].t = "nil"
                  \/ q[2].t = "string" /\ \E e \in JSONTable : e[1] = q[2].v

\* The caveat such columns stand for: none for the empty name, otherwise the
\* name with the parsed context.
CaveatOfColumns(values) ==
    LET name == (CHOOSE p \in values.cols : p[1] = colCaveatName)[2].v
        ctx == { q[2] : q \in { r \in values.cols : r[1] = colCaveatContext } }
    IN IF name = "" THEN NoCaveat
       ELSE [name |-> name,
             context |-> IF ctx = {} \/ ctx = {Nil} THEN {}
                         ELSE (CHOOSE e \in JSONTable :
                                 e[1] = (CHOOSE c \in ctx : TRUE).v)[2]]

\* The value of column c of a value map, absent and nil alike.
ColumnOf(values, c) ==
    IF \E p \in values.cols : p[1] = c
    THEN (CHOOSE p \in values.cols : p[1] = c)[2] ELSE Nil

\* The modification at hand is one of `kind` on the relationship table with
\* the primary key RelKeys and two value maps.
RelationshipModDecoded(kind) ==
    /\ pc = "decoded"
    /\ modIn.TableName = tableRelationship
    /\ modIn.ModType = kind
    /\ modIn.Keys = RelKeys
    /\ modIn.OldValues.isMap
    /\ modIn.NewValues.isMap

\* The decoder made one TOUCH of the tuple of RelKeys with the caveat of the
\* new value columns.
TouchOfNewValues ==
    /\ modOut.res = "event"
    /\ modOut.ev.kind = "relationship"
    /\ modOut.ev.op = "TOUCH"
    /\ modOut.ev.tuple = RelKeysTuple
    /\ modOut.ev.caveat = CaveatOfColumns(modIn.NewValues)

\* C11: an UPDATE on the relationship table whose caveat name and raw caveat
\* context are the same in the old and the new value columns yields no event;
\* one where either differs, and whose new columns hold a caveat that can be
\* built, yields one TOUCH of the primary key's tuple with that caveat.
C11_UpdateRelationship ==
    RelationshipModDecoded("UPDATE") =>
       IF /\ ColumnOf(modIn.OldValues, colCaveatName)
               = ColumnOf(modIn.NewValues, colCaveatName)
          /\ ColumnOf(modIn.OldValues, colCaveatContext)
               = ColumnOf(modIn.NewValues, colCaveatContext)
       THEN modOut.res = "skip" /\ modOut.ev = NoEvent
       ELSE CaveatColumnsWellFormed(modIn.NewValues) => TouchOfNewValues

\* An UPDATE that changed the caveat context alone became a TOUCH with the
\* new context.
C11_Witness ==
    /\ RelationshipModDecoded("UPDATE")
    /\ modIn.OldValues = CaveatValues(Str("expiration"), Str("{}"))
    /\ modIn.NewValues = CaveatValues(Str("expiration"), Str("{\"x\":9001}"))
    /\ TouchOfNewValues
    /\ modOut.ev.caveat = [name |-> "expiration", context |-> {<<"x", "9001">>}]

\* C12 as stated: an INSERT on the relationship table yields one TOUCH of the
\* primary key's tuple with the caveat of the new value columns, whatever the
\* old value columns are.
C12_InsertIgnoresOldValues ==
    (/\ pc = "decoded"
     /\ modIn.TableName = tableRelationship
     /\ modIn.ModType = "INSERT"
     /\ modIn.Keys = RelKeys
     /\ CaveatColumnsWellFormed(modIn.NewValues)) => TouchOfNewValues

\* C12 amended: an INSERT on the relationship table that carries no old value
\* columns (the empty map) and whose new columns hold a caveat that can be
\* built yields one TOUCH of the primary key's tuple with that caveat.
C12_InsertWithoutOldValues ==
    (/\ RelationshipModDecoded("INSERT")
     /\ modIn.OldValues = EmptyMap
     /\ CaveatColumnsWellFormed(modIn.NewValues)) => TouchOfNewValues

\* An INSERT without old values became a TOUCH with the caveat of the new ones.
C12_Witness ==
    /\ RelationshipModDecoded("INSERT")
    /\ modIn.OldValues = EmptyMap
    /\ modIn.NewValues = CaveatValues(Str("expiration"), Str("{\"x\":9001}"))
    /\ TouchOfNewValues
    /\ modOut.ev.caveat.name = "expiration"

\* C13 as stated: a DELETE on the namespace table whose primary key holds the
\* namespace name column yields a deleted namespace of that name, and a DELETE
\* on the caveat table whose primary key holds the caveat table's name column
\* yields a deleted caveat of that name; neither is an error.
C13_SchemaDeleteNames ==
    (pc = "decoded" /\ modIn.ModType = "DELETE") =>
       /\ (/\ modIn.TableName = tableNamespace
           /\ modIn.Keys = MapOf({<<colNamespaceName, Str("document")>>}))
             => /\ modOut.res = "event"
                /\ modOut.ev.kind = "deletedNamespace"
                /\ modOut.ev.name = "document"
       /\ (/\ modIn.TableName = tableCaveat
           /\ modIn.Keys = MapOf({<<colName, Str("expiration")>>}))
             => /\ modOut.res = "event"
                /\ modOut.ev.kind = "deletedCaveat"
                /\ modOut.ev.name = "expiration"

\* C14 as stated: within one batch (one call of the handler) no two data
\* change sets of the same revision are put on the data queue, also when the
\* modifications of that revision come in several change records of the batch.
C14_OneDataSetPerBatchRevision ==
    [][PutsData => updates'[Len(updates')].Revision # batchDataRev]_vars

\* C14 amended: within one change record of a batch the modifications that
\* share a commit revision, in one data change record or in several, are
\* merged into one change set: the data change sets a change record yields
\* have pairwise different revisions, and no data change set is put at the
\* revision of a data change set of the same change record put before it.
C14_OneDataSetPerRecordRevision ==
    /\ [](\A i, j \in 1..Len(plan) :
            (i # j /\ ~plan[i].IsCheckpoint /\ ~plan[j].IsCheckpoint)
                => plan[i].Revision # plan[j].Revision)
    /\ [][PutsData =>
            \A i \in 1..sent :
                ~plan[i].IsCheckpoint => plan[i].Revision # updates'[Len(updates')].Revision]_vars

\* A change record with a relationship insert and a namespace insert of one
\* commit: one change set with both, put ahead of the record's checkpoint.
C14_Witness ==
    /\ pc = "send"
    /\ sent = 1
    /\ Len(plan) = 2
    /\ ~plan[1].IsCheckpoint
    /\ plan[1].RelationshipChanges # {}
    /\ plan[1].ChangedDefinitions # {}
    /\ plan[2].IsCheckpoint
    /\ Len(updates) >= 1
    /\ updates[Len(updates)] = plan[1]

\* C15: whatever the content mask, every change set on the data queue, and
\* every change set a change record yields for it, is either a checkpoint
\* that carries no data or a non-checkpoint set that carries at least one
\* relationship change, changed definition, deleted namespace or deleted
\* caveat.
C15_CheckpointOrNonEmpty ==
    /\ \A i \in 1..Len(updates) : updates[i].IsCheckpoint <=> CarriesNoData(updates[i])
    /\ \A i \in 1..Len(plan) : plan[i].IsCheckpoint <=> CarriesNoData(plan[i])

\* Schema and checkpoints requested: a change record took the last data
\* change records of the stream and yields one change set with definitions
\* only, already put, and a checkpoint.
C15_Witness ==
    /\ content = BitOr(WatchSchema, WatchCheckpoints)
    /\ pc = "send"
    /\ dataLeft = 0
    /\ sent = 1
    /\ Len(plan) = 2
    /\ ~plan[1].IsCheckpoint
    /\ plan[1].RelationshipChanges = {}
    /\ plan[1].ChangedDefinitions # {}
    /\ plan[2].IsCheckpoint
    /\ Len(updates) >= 1
    /\ updates[Len(updates)] = plan[1]

\* C16: the reader is released at most once, and only after it was opened;
\* it is open only between its successful open and the producer's return;
\* once the goroutine has returned, on whatever path (read error, decode
\* error, full queue, cancellation, clean end of Read), a reader that was
\* opened has been released exactly once; and when the database name fails to
\* parse or the open fails, no reader was opened and none is released.
C16_ReaderReleasedOnce ==
    /\ readerCloses <= 1
    /\ reader = "closed" <=> readerCloses = 1
    /\ reader = "none" <=> stream = ""
    /\ pc \in {"start", "open"} => reader = "none"
    /\ pc \in {"read", "record", "send"} => reader = "open"
    /\ pc = "done" => reader # "open"
    /\ err \in {ErrParse, ErrOpen} => reader = "none" /\ readerCloses = 0

\* A session that ended on a decode error under a canceled context, with
\* its reader released.
C16_Witness ==
    /\ pc = "done"
    /\ err = BugUnknownModType
    /\ ctxErr = "Canceled"
    /\ reader = "closed"
    /\ readerCloses = 1

\* C17: the producer never waits on the consumer. When it is about to write
\* its error the error channel has room, whatever the consumer has or has not
\* received; and once the open of the reader has failed or Read has returned
\* (the producer is at sendError or returning, not unwinding a panic), the
\* session eventually is closed: the goroutine has returned and both channels
\* are closed, with no step of the consumer required.
C17_ProducerNeverWaits ==
    /\ [](pc = "sendError" => Len(errs) < ErrsCapacity)
    /\ (pc \in {"sendError", "return"} /\ ~panicking)
          ~> (pc = "done" /\ updatesClosed = 1 /\ errsClosed = 1)

\* A closed session whose consumer never received: the error and every
\* checkpoint put are still in their channels.
C17_Witness ==
    /\ pc = "done"
    /\ updatesClosed = 1 /\ errsClosed = 1
    /\ content = WatchCheckpoints
    /\ cpPut >= 2
    /\ Len(updates) = cpPut
    /\ errsSent # <<>>
    /\ errs = errsSent

\* C18: what has been put on the data queue is a prefix of what the session
\* renders: a change record renders its data change sets in ascending revision
\* order and its checkpoints after them; every put appends exactly the next
\* rendered change set of the record at hand and moves on by one; the handler
\* moves on within a record, or to the next record, only by a put; and a put
\* that fails ends the session with the disconnect error, nothing being put
\* after it.
C18_DeliveredIsPrefixOfRendered ==
    /\ [](\A i, j \in 1..Len(plan) :
            i < j => /\ plan[i].IsCheckpoint => plan[j].IsCheckpoint
                     /\ (~plan[i].IsCheckpoint /\ ~plan[j].IsCheckpoint)
                            => plan[i].Revision < plan[j].Revision)
    /\ [](pc = "send" => sent < Len(plan))
    /\ [][Puts => /\ pc = "send"
                  /\ updates' = Append(updates, plan[sent + 1])
                  /\ pc' = "send" => (sent' = sent + 1 /\ plan' = plan)
                  /\ pc' # "send" => (sent + 1 = Len(plan) /\ pc' \in {"record", "read"})]_vars
    /\ [][(pc = "send" /\ ~Puts /\ <<pc, sent, plan>>' # <<pc, sent, plan>>)
            => /\ Len(updates) = UpdatesCapacity
               /\ fullSeen'
               /\ pc' = "sendError"
               /\ err' = ErrWatchDisconnected]_vars
    /\ [][fullSeen => Len(updates') <= Len(updates)]_vars

\* A session ended by a put that failed: the queue is full, and a heartbeat the
\* handler was handed has no checkpoint on it although checkpoints were asked
\* for.
C18_Witness ==
    /\ BitAnd(content, WatchCheckpoints) = WatchCheckpoints
    /\ fullSeen
    /\ pc = "done"
    /\ Len(updates) = UpdatesCapacity
    /\ cpPut < hbSeen
    /\ maxSentRev < streamTs
    /\ errsSent # <<>>

\* The errors the decode loops return.
DecodeErrors ==
    {BugKeysMap, BugOldValuesMap, BugNewValuesKeysMap, BugMissingNamespaceName,
     BugNamespaceNameType, BugMissingCaveatName, BugCaveatNameType,
     BugMissingNamespaceConfig, BugNamespaceConfigType, BugMissingCaveatDefinition,
     BugCaveatDefinitionType, BugUnknownTable, BugUnknownModType,
     ErrUnableToReadConfig, ErrJSON}

\* C19: delivery is all-or-nothing per change record with respect to decode
\* errors. The step in which the decoding of a change record fails puts
\* nothing and leaves the data queue as it is, keeping what earlier change
\* records delivered; the record that holds the failing modification yields
\* no change set, whatever its decode loops had tracked by then; nothing is
\* put afterwards; and no step of the producer takes a delivered change set
\* back.
C19_NothingOfFailedRecord ==
    /\ [][(pc = "record" /\ pc' = "sendError")
            => /\ err' \in DecodeErrors
               /\ updates' = updates
               /\ plan' = <<>>]_vars
    /\ []((unknownAt > 0 \/ lostChanges \/ err \in DecodeErrors)
            => /\ plan = <<>>
               /\ pc \in {"sendError", "return", "done", "crashed"})
    /\ [][(unknownAt > 0 \/ lostChanges \/ err \in DecodeErrors)
            => Len(updates') <= Len(updates)]_vars
    /\ [][pc' # pc => (updates' = updates \/ Puts)]_vars

\* A change record whose second data change record could not be decoded
\* after its first one had been tracked, in a session that had delivered
\* the checkpoints of an earlier change record: they are still in the queue.
C19_Witness ==
    /\ pc = "sendError"
    /\ err \in DecodeErrors
    /\ lostChanges
    /\ decodedTo = 2
    /\ plan = <<>>
    /\ Len(updates) = cpPut
    /\ cpPut >= 2
    /\ updates[Len(updates)].IsCheckpoint

\* C20: the end of a session is ordered. The data channel is closed only
\* after the error channel; the error channel is closed only after the reader,
\* if one was opened, has been released; and the reader is released, and the
\* channels are closed, only after the terminal error, if the session has
\* one, has been written to the error channel. So whoever finds the data
\* channel closed finds the error channel closed and the terminal error
\* written.
C20_OrderedEnd ==
    /\ updatesClosed = 1 => errsClosed = 1
    /\ errsClosed = 1 => reader \in {"none", "closed"}
    /\ errsClosed = 1 => (reader = "closed" <=> stream # "")
    /\ (err # NoErr /\ (reader = "closed" \/ errsClosed = 1 \/ updatesClosed = 1))
          => Len(errsSent) = 1
    /\ (updatesClosed = 1 /\ Len(errsSent) = 1) => closedWrites = 0

\* Half way through the end of a session that failed: the error is in the
\* error channel, the reader is released, the error channel is closed and
\* the data channel is not yet.
C20_Witness ==
    /\ pc = "return"
    /\ err # NoErr
    /\ errs = errsSent
    /\ Len(errs) = 1
    /\ reader = "closed"
    /\ errsClosed = 1
    /\ updatesClosed = 0

====
